---- MODULE Spec2Model ----
(***************************************************************************)
(* Model of the Tuya smart-home control application (main.py,              *)
(* fan_config.py): the device registry, the remote API as seen through     *)
(* CloudControl, the per-device widget state of CloudUI, the units of work *)
(* that execute device_action, the fan-out of _run_concurrent_actions and  *)
(* the deferred re-poll update_all_statuses.                               *)
(***************************************************************************)
EXTENDS Integers, Sequences, FiniteSets, TLC

VARIABLES
    registry,        \* CloudControl.devices, in file order: <<[name, id, category]>>
    remote,          \* the vendor cloud: device id -> switch value
    api,             \* how the vendor API answers at the moment
    last_state,      \* device_widgets[k]['last_state'], for the keys k that have one
    indicator,       \* what each device's status indicator and toggle button show: on or off
    cached_states,   \* CloudUI.cached_states: device id -> status map
    labels,          \* status text of fans_status, lights_status, all_status
    units,           \* every device_action invocation started so far
    timers,          \* root.after callbacks update_all_statuses still pending
    poll,            \* the update_all_statuses run on the event loop
    batch,           \* the last call of _run_concurrent_actions and what built it
    fanouts,         \* calls of _run_concurrent_actions so far
    fanoutPolls,     \* completed re-polls that a fan-out scheduled
    aggStates,       \* argument of a direct update_category_status evaluation
    aggStatus,       \* its result
    events,          \* external events so far: user actions, changes of the environment
    shown,           \* which master buttons each category shows: "both", "on" or "off"
    lastAccepted,    \* device id -> the switch command the cloud accepted last, if any
    aggCategory,     \* the label a direct update_category_status evaluation is for
    call,            \* a direct call of a CloudControl method: answer and return value
    files,           \* devices.json and devices.example.json on disk
    device_widgets,  \* the keys of CloudUI.device_widgets, in insertion order
    boot             \* how far CloudControl.__init__ and CloudUI.__init__ have got

vars == <<registry, remote, api, last_state, indicator, cached_states, labels, units, timers,
          poll, batch, fanouts, fanoutPolls, aggStates, aggStatus, events,
          shown, lastAccepted, aggCategory, call, files, boot, device_widgets>>

(***************************************************************************)
(* Bounds of the model.                                                    *)
(***************************************************************************)
MaxEvents == 2
MaxUnits == 4
MaxLen == 5
MaxItems == 2

(***************************************************************************)
(* Python dict and str helpers.                                            *)
(***************************************************************************)
EmptyMap == << >>

\* dict.get(key, default)
Get(m, key, default) == IF key \in DOMAIN m THEN m[key] ELSE default

\* d[key] = value
Put(m, key, value) == [k \in DOMAIN m \cup {key} |-> IF k = key THEN value ELSE m[k]]

\* bool(d) of a dict: true iff non-empty
Truthy(m) == DOMAIN m # {}

\* a Python value that is a bool or an int
BoolVal(b) == [kind |-> "bool", b |-> b, n |-> 0]
IntVal(n) == [kind |-> "int", b |-> FALSE, n |-> n]

\* bool(x)
PyBool(x) == IF x.kind = "bool" THEN x.b ELSE x.n # 0

\* int(x)
PyInt(x) == IF x.kind = "int" THEN x.n ELSE IF x.b THEN 1 ELSE 0

UpperCase == <<"A","B","C","D","E","F","G","H","I","J","K","L","M",
               "N","O","P","Q","R","S","T","U","V","W","X","Y","Z">>
LowerCase == <<"a","b","c","d","e","f","g","h","i","j","k","l","m",
               "n","o","p","q","r","s","t","u","v","w","x","y","z">>

\* str.lower() of one character
LowerChar(c) ==
    IF \E i \in 1..Len(UpperCase) : UpperCase[i] = c
    THEN LowerCase[CHOOSE i \in 1..Len(UpperCase) : UpperCase[i] = c]
    ELSE c

\* str.lower()
Lower(s) == [i \in 1..Len(s) |-> LowerChar(s[i])]

\* needle in s
Contains(s, needle) ==
    \E i \in 0..(Len(s) - Len(needle)) :
        \A j \in 1..Len(needle) : s[i + j] = needle[j]

(***************************************************************************)
(* fan_config.py                                                           *)
(***************************************************************************)
ExhaustSpeed == 40
RegularSpeed == 45

get_normal_speed(name) ==
    LET name_lower == Lower(name)
    IN  IF Contains(name_lower, <<"e","x","a","u","s","t">>)
        THEN ExhaustSpeed
        ELSE RegularSpeed

(***************************************************************************)
(* Device registries (devices.json). Names are sequences of characters.    *)
(***************************************************************************)
NameExhaustFan1 == <<"E","x","h","a","u","s","t"," ","F","a","n"," ","1">>
NameFan2 == <<"F","a","n"," ","2">>
NameFan3 == <<"F","a","n"," ","3">>
NameLight1 == <<"L","i","g","h","t"," ","1">>

\* the third file gives two names the same device id
Registries ==
    { << [name |-> NameExhaustFan1, id |-> "f1", category |-> "fskg"],
         [name |-> NameLight1,      id |-> "l1", category |-> "tdq"] >>,
      << [name |-> NameFan2,        id |-> "f2", category |-> "fskg"] >>,
      << [name |-> NameFan2,        id |-> "f2", category |-> "fskg"],
         [name |-> NameFan3,        id |-> "f2", category |-> "fskg"] >> }

DeviceIds == { registry[i].id : i \in 1..Len(registry) }

\* dev['id'] for name, dev in self.devices.items()
RegistryIds == [i \in 1..Len(registry) |-> registry[i].id]

\* the keys of a dict filled by d[k] = ... for k in keys: each key once, where
\* it was first inserted
DictKeys(keys) ==
    LET IsFirst(i) == \A j \in 1..(i - 1) : keys[j] # keys[i]
        first == SelectSeq([i \in 1..Len(keys) |-> i], IsFirst)
    IN  [n \in 1..Len(first) |-> keys[first[n]]]

\* the registry entry that wrote the dict entry of dev_id last
DeviceOf(dev_id) ==
    registry[CHOOSE i \in 1..Len(registry) :
                /\ registry[i].id = dev_id
                /\ \A j \in (i+1)..Len(registry) : registry[j].id # dev_id]

\* variant: one entry per add_fan / add_light call
WidgetsOf_percall(ids) == <<"master_fans", "master_lights">> \o ids

\* device_widgets after __init__ called add_fan or add_light for ids: the two
\* master entries, then one entry per device id
WidgetsOf(ids) == <<"master_fans", "master_lights">> \o DictKeys(ids)

\* for dev_id, widget_info in self.device_widgets.items()
WidgetKeys == device_widgets

WidgetCategory(key) ==
    IF key = "master_fans" THEN "master_fskg"
    ELSE IF key = "master_lights" THEN "master_tdq"
    ELSE DeviceOf(key).category

SwitchKey(category) == IF category = "tdq" THEN "switch_1" ELSE "switch_fan"

SwitchCodes == {"switch_1", "switch_fan"}

(***************************************************************************)
(* The vendor API. A call either raises or answers with a response; a      *)
(* status response lists {code, value} items. The cloud knows the devices  *)
(* of the registry only: every call for another id fails. While api is     *)
(* "down" every call fails (it raises, or is answered success = false);    *)
(* while it is "partial" a status response lacks the switch code.          *)
(***************************************************************************)
ApiModes == {"up", "down", "partial"}

Raised == [raised |-> TRUE, success |-> FALSE, result |-> << >>]
NonSuccess == [raised |-> FALSE, success |-> FALSE, result |-> << >>]
Success(result) == [raised |-> FALSE, success |-> TRUE, result |-> result]

\* answers of GET /v1.0/iot-03/devices/{id}/status
ApiGetResponses(dev_id) ==
    IF dev_id \notin DeviceIds \/ api = "down" THEN { Raised, NonSuccess }
    ELSE IF api = "up"
    THEN { Success(<< [code |-> SwitchKey(DeviceOf(dev_id).category),
                       value |-> remote[dev_id]] >>) }
    ELSE { Success(<< [code |-> "child_lock", value |-> FALSE] >>) }

\* answers of POST /v1.0/iot-03/devices/{id}/commands
ApiPostResponses(dev_id) ==
    IF dev_id \notin DeviceIds \/ api = "down" THEN { Raised, NonSuccess }
    ELSE { Success(<< >>) }

\* the cloud after it accepted a command
RemoteAfter(dev_id, cmd, value) ==
    IF cmd \in SwitchCodes THEN [remote EXCEPT ![dev_id] = PyBool(value)] ELSE remote

(***************************************************************************)
(* CloudControl                                                            *)
(***************************************************************************)
\* {item['code']: item['value'] for item in status['result']}
DictOfItems(items) ==
    [c \in { items[i].code : i \in 1..Len(items) } |->
        LET last == CHOOSE i \in 1..Len(items) :
                        /\ items[i].code = c
                        /\ \A j \in (i+1)..Len(items) : items[j].code # c
        IN  items[last].value]

\* variant: the except branch returns a map that describes the error
get_device_status_errmap(resp) ==
    IF resp.raised THEN [c \in {"error"} |-> TRUE]
    ELSE IF resp.success THEN DictOfItems(resp.result)
    ELSE EmptyMap

get_device_status(resp) ==
    IF resp.raised THEN EmptyMap
    ELSE IF resp.success THEN DictOfItems(resp.result)
    ELSE EmptyMap

\* variant: an exception of the post is swallowed and reported as success
control_raise_ok(resp) ==
    IF resp.raised THEN [success |-> TRUE]
    ELSE [success |-> resp.success]

control(resp) ==
    IF resp.raised THEN [success |-> FALSE]
    ELSE [success |-> resp.success]

\* resps: device id -> the answer its status call gets
get_all_statuses(resps) == [d \in DOMAIN resps |-> get_device_status(resps[d])]

AllGetResponses == { r \in [DeviceIds -> UNION { ApiGetResponses(d) : d \in DeviceIds }] :
                        \A d \in DeviceIds : r[d] \in ApiGetResponses(d) }

(***************************************************************************)
(* CloudUI.update_category_status: the status text of a category label.    *)
(***************************************************************************)
RECURSIVE PyAll(_)
PyAll(states) ==
    IF states = << >> THEN TRUE
    ELSE IF ~Head(states) THEN FALSE
    ELSE PyAll(Tail(states))

RECURSIVE PyAny(_)
PyAny(states) ==
    IF states = << >> THEN FALSE
    ELSE IF Head(states) THEN TRUE
    ELSE PyAny(Tail(states))

\* variant: the any() test placed before the all() test
update_category_status_anyfirst(states) ==
    IF Len(states) = 0 THEN "Unknown"
    ELSE IF PyAny(states) THEN "MIXED"
    ELSE IF PyAll(states) THEN "ON"
    ELSE "OFF"

update_category_status(states) ==
    IF Len(states) = 0 THEN "Unknown"
    ELSE IF PyAll(states) THEN "ON"
    ELSE IF PyAny(states) THEN "MIXED"
    ELSE "OFF"

\* variant: the buttons of the ON and OFF branches exchanged
show_buttons_swapped(states) ==
    IF Len(states) = 0 THEN "both"
    ELSE IF PyAll(states) THEN "on"
    ELSE IF PyAny(states) THEN "both"
    ELSE "off"

\* show_buttons of update_category_status: which of the category's master
\* buttons stay on screen
show_buttons(states) ==
    IF Len(states) = 0 THEN "both"
    ELSE IF PyAll(states) THEN "off"
    ELSE IF PyAny(states) THEN "both"
    ELSE "on"

(***************************************************************************)
(* CloudUI.device_action, by parts.                                        *)
(***************************************************************************)
\* variant: the status read does not look at force_state
NeedsFetch_always(cmd, force_state) == cmd \in SwitchCodes

\* the guard of the status read
NeedsFetch(cmd, force_state) == ~force_state /\ cmd \in SwitchCodes

\* variant: the negation left out
ToggleValue_same(status, cmd) == BoolVal(Get(status, cmd, FALSE))

\* current_state = status.get(cmd, False); final_value = not current_state
ToggleValue(status, cmd) == BoolVal(~Get(status, cmd, FALSE))

\* bool(final_value) for every code but fan_speed, int(value) for fan_speed
ActualValue(cmd, final_value, value) ==
    IF cmd # "fan_speed" THEN BoolVal(PyBool(final_value)) ELSE IntVal(PyInt(value))

\* variant: is_on = bool(actual_value_to_send) for every code
IsOn_sent(cmd, actual_value_to_send, dev_id) ==
    IF cmd # "fan_speed" THEN actual_value_to_send.b
    ELSE actual_value_to_send.n # 0

\* is_on of the success branch
IsOn(cmd, actual_value_to_send, dev_id) ==
    IF cmd # "fan_speed" THEN actual_value_to_send.b
    ELSE Get(last_state, dev_id, FALSE)

\* variant: the cached state is not written
StoreLastState_skip(dev_id, is_on) == last_state

\* widget_info['last_state'] = is_on; an id without widget entry writes to a
\* temporary dict
StoreLastState(dev_id, is_on) ==
    IF \E i \in 1..Len(WidgetKeys) : WidgetKeys[i] = dev_id
    THEN Put(last_state, dev_id, is_on)
    ELSE last_state

\* _update_device_ui(dev_id, widget_info, is_on): the status indicator and the
\* toggle button of a device's widget entry show is_on; a master entry has
\* neither
UpdateDeviceUi(dev_id, is_on) ==
    IF dev_id \in DOMAIN indicator
    THEN [indicator EXCEPT ![dev_id] = is_on]
    ELSE indicator

\* a device_action invocation about to run its first statement
NewUnit(ctx, dev_id, cmd, value, force_state) ==
    [ctx |-> ctx, dev |-> dev_id, cmd |-> cmd, value |-> value,
     force |-> force_state, final |-> value,
     pc |-> IF NeedsFetch(cmd, force_state) THEN "fetch" ELSE "post",
     fetches |-> 0, status |-> EmptyMap, posted |-> << >>, accepted |-> FALSE,
     outcome |-> "running"]

\* variant: no early return on an empty status
AfterFetch_noabort(u, status) ==
    [u EXCEPT !.fetches = @ + 1, !.status = status,
              !.final = ToggleValue(status, u.cmd), !.pc = "post"]

\* the invocation u after its status read returned status: the toggle, or the
\* early return when the status is empty
AfterFetch(u, status) ==
    IF Truthy(status)
    THEN [u EXCEPT !.fetches = @ + 1, !.status = status,
                   !.final = ToggleValue(status, u.cmd), !.pc = "post"]
    ELSE [u EXCEPT !.fetches = @ + 1, !.status = status,
                   !.pc = "done", !.outcome = "aborted"]

\* variant: a command that failed is sent again until it succeeds
AfterControl_retry(u, actual_value_to_send, result) ==
    IF result.success
    THEN [u EXCEPT !.posted = <<actual_value_to_send>>, !.pc = "update"]
    ELSE [u EXCEPT !.posted = <<actual_value_to_send>>]

\* the invocation u after control() returned result for the value it sent
AfterControl(u, actual_value_to_send, result) ==
    IF result.success
    THEN [u EXCEPT !.posted = <<actual_value_to_send>>, !.pc = "update"]
    ELSE [u EXCEPT !.posted = <<actual_value_to_send>>, !.pc = "done",
                   !.outcome = "failed"]

(***************************************************************************)
(* The batches of (dev_id, cmd, value, force_state) tuples.                *)
(***************************************************************************)
set_category_state_actions(category, state) ==
    LET InCategory(key) == WidgetCategory(key) = category
        keys == SelectSeq(WidgetKeys, InCategory)
        cmd == IF category = "fskg" THEN "switch_fan" ELSE "switch_1"
    IN  [i \in 1..Len(keys) |-> <<keys[i], cmd, BoolVal(state), TRUE>>]

set_all_state_actions(state) ==
    [i \in 1..Len(WidgetKeys) |->
        <<WidgetKeys[i],
          IF WidgetCategory(WidgetKeys[i]) = "fskg" THEN "switch_fan" ELSE "switch_1",
          BoolVal(state), TRUE>>]

\* [name for name, dev in devices.items() if dev['id'] == dev_id][0]
DeviceName(dev_id) ==
    registry[CHOOSE i \in 1..Len(registry) :
                /\ registry[i].id = dev_id
                /\ \A j \in 1..(i-1) : registry[j].id # dev_id].name

\* variant: every fan is normalized, whatever its status
normalize_fan_speeds_actions_all(statuses) ==
    LET IsFan(key) == WidgetCategory(key) = "fskg"
        keys == SelectSeq(WidgetKeys, IsFan)
    IN  [i \in 1..Len(keys) |->
            <<keys[i], "fan_speed", IntVal(get_normal_speed(DeviceName(keys[i]))), TRUE>>]

\* statuses: fan id -> the status map normalize_fan_speeds fetched for it
normalize_fan_speeds_actions(statuses) ==
    LET IsFan(key) == WidgetCategory(key) = "fskg"
        IsOnFan(key) == /\ IsFan(key)
                        /\ Truthy(statuses[key])
                        /\ Get(statuses[key], "switch_fan", FALSE)
        keys == SelectSeq(WidgetKeys, IsOnFan)
    IN  [i \in 1..Len(keys) |->
            <<keys[i], "fan_speed", IntVal(get_normal_speed(DeviceName(keys[i]))), TRUE>>]

FanIds == { d \in DeviceIds : DeviceOf(d).category = "fskg" }

(***************************************************************************)
(* CloudUI._run_concurrent_actions                                         *)
(***************************************************************************)
\* variant: the loop stops one tuple early
run_concurrent_actions_short(actions) ==
    [i \in 1..(Len(actions) - 1) |->
        NewUnit("worker", actions[i][1], actions[i][2], actions[i][3], actions[i][4])]

\* one thread per tuple, target device_action(dev_id, cmd, value, None, force_state)
run_concurrent_actions(actions) ==
    [i \in 1..Len(actions) |->
        NewUnit("worker", actions[i][1], actions[i][2], actions[i][3], actions[i][4])]

\* variant: no re-poll is scheduled after the fan-out
AfterFanout_none(t) == t

\* root.after(3000, self.update_all_statuses)
AfterFanout(t) == [t EXCEPT !.fanout = @ + 1]

\* root.after(2000, self.update_all_statuses) of a successful device_action
AfterAction(t) == [t EXCEPT !.action = @ + 1]

NoBatch == [op |-> "none", actions |-> << >>, statuses |-> EmptyMap,
            first |-> 1, launched |-> 0]

\* the caller's "if actions_to_run:" around _run_concurrent_actions
Dispatch(op, actions, statuses) ==
    IF Len(actions) > 0
    THEN /\ Len(units) + Len(actions) <= MaxUnits
         /\ units' = units \o run_concurrent_actions(actions)
         /\ timers' = AfterFanout(timers)
         /\ fanouts' = fanouts + 1
         /\ batch' = [op |-> op, actions |-> actions, statuses |-> statuses,
                      first |-> Len(units) + 1,
                      launched |-> Len(units') - Len(units)]
    ELSE /\ batch' = [op |-> op, actions |-> actions, statuses |-> statuses,
                      first |-> Len(units) + 1, launched |-> 0]
         /\ UNCHANGED <<units, timers, fanouts>>

(***************************************************************************)
(* Threads of control: the Tk event loop ("ui"), the tray icon's thread    *)
(* ("tray") and one worker thread per fanned-out action ("worker").        *)
(***************************************************************************)
Busy(ctx) == \E i \in 1..Len(units) : units[i].ctx = ctx /\ units[i].pc # "done"

\* variant: callbacks do not wait for the event loop to be free, as if each
\* ran on a thread of its own
UiIdle_always == TRUE

\* the event loop runs one callback at a time: a new one starts when neither
\* update_all_statuses nor a device_action called from a button is running
UiIdle == poll.pc = "idle" /\ ~Busy("ui")

Idle(ctx) == IF ctx = "ui" THEN UiIdle ELSE ~Busy("tray")

Callers == {"ui", "tray"}

SliderValues == {1, 100}

(***************************************************************************)
(* CloudUI.update_device_status and update_all_statuses, by parts.         *)
(***************************************************************************)
\* the keys of statuses = get_all_statuses(), in the order of the dict
StatusKeys == DictKeys(RegistryIds)

\* last_state after update_device_status(dev_id) fetched status
update_device_status(ls, dev_id, status) ==
    IF Truthy(status) /\ (\E i \in 1..Len(WidgetKeys) : WidgetKeys[i] = dev_id)
    THEN Put(ls, dev_id, Get(status, SwitchKey(WidgetCategory(dev_id)), FALSE))
    ELSE ls

\* last_state after the update_device_status calls of the loop of
\* update_all_statuses over ids; fresh: device id -> the status each call fetched
RECURSIVE UpdateDevices(_, _, _)
UpdateDevices(ls, ids, fresh) ==
    IF ids = << >> THEN ls
    ELSE UpdateDevices(update_device_status(ls, Head(ids), fresh[Head(ids)]),
                       Tail(ids), fresh)

\* variant: the switch code of a fan is read for every device
SnapshotIsOn_fankey(statuses, dev_id) == Get(statuses[dev_id], "switch_fan", FALSE)

\* is_on of the loop, read from the snapshot statuses = get_all_statuses()
SnapshotIsOn(statuses, dev_id) ==
    Get(statuses[dev_id], SwitchKey(WidgetCategory(dev_id)), FALSE)

\* variant: a device whose status is empty is left out of the list
FanStates_answered(keys, statuses) ==
    LET ids == SelectSeq(keys, LAMBDA d : WidgetCategory(d) = "fskg" /\ Truthy(statuses[d]))
    IN  [i \in 1..Len(ids) |-> SnapshotIsOn(statuses, ids[i])]

\* fan_states of the loop over statuses.items(), whose keys in dict order are
\* keys: fskg devices; light_states: every other device
FanStates(keys, statuses) ==
    LET ids == SelectSeq(keys, LAMBDA d : WidgetCategory(d) = "fskg")
    IN  [i \in 1..Len(ids) |-> SnapshotIsOn(statuses, ids[i])]

LightStates(keys, statuses) ==
    LET ids == SelectSeq(keys, LAMBDA d : WidgetCategory(d) # "fskg")
    IN  [i \in 1..Len(ids) |-> SnapshotIsOn(statuses, ids[i])]

\* the three update_category_status calls that end update_all_statuses
CategoryLabels(fan_states, light_states) ==
    [fans |-> update_category_status(fan_states),
     lights |-> update_category_status(light_states),
     all |-> update_category_status(fan_states \o light_states)]

\* and the master buttons they leave on screen
CategoryButtons(fan_states, light_states) ==
    [fans |-> show_buttons(fan_states),
     lights |-> show_buttons(light_states),
     all |-> show_buttons(fan_states \o light_states)]

PollIdle == [pc |-> "idle", src |-> "none", keys |-> << >>, statuses |-> EmptyMap]

(***************************************************************************)
(* What the cloud accepted: no switch command yet, or the value of the     *)
(* last one.                                                               *)
(***************************************************************************)
NoneAccepted == [some |-> FALSE, b |-> FALSE]
AcceptedValue(b) == [some |-> TRUE, b |-> b]

\* lastAccepted after the cloud accepted command cmd with this value
AcceptedAfter(dev_id, cmd, value) ==
    IF cmd \in SwitchCodes
    THEN [lastAccepted EXCEPT ![dev_id] = AcceptedValue(PyBool(value))]
    ELSE lastAccepted

(***************************************************************************)
(* The files of CloudControl.__init__ and the stages of start-up.          *)
(***************************************************************************)
Absent == [exists |-> FALSE, wellformed |-> FALSE, value |-> << >>]
Malformed == [exists |-> TRUE, wellformed |-> FALSE, value |-> << >>]
JsonFile(devices) == [exists |-> TRUE, wellformed |-> TRUE, value |-> devices]

FileContents == { Absent, Malformed } \cup { JsonFile(r) : r \in Registries }

\* variant: no copy of the example when devices.json is absent
CloudControlInit_nocopy(fs) ==
    IF ~fs.devices.exists
    THEN [files |-> fs, copied |-> FALSE, error |-> "FileNotFoundError", devices |-> << >>]
    ELSE IF ~fs.devices.wellformed
    THEN [files |-> fs, copied |-> FALSE, error |-> "ValueError", devices |-> << >>]
    ELSE [files |-> fs, copied |-> FALSE, error |-> "none",
          devices |-> fs.devices.value]

\* CloudControl.__init__ on the file system fs: the files it leaves, whether it
\* copied the example, the exception it raises and self.devices
CloudControlInit(fs) ==
    LET absent == ~fs.devices.exists
        copy == absent /\ fs.example.exists
        after == IF copy THEN [fs EXCEPT !.devices = fs.example] ELSE fs
    IN  IF absent /\ ~fs.example.exists
        THEN [files |-> fs, copied |-> FALSE, error |-> "FileNotFoundError",
              devices |-> << >>]
        ELSE IF ~after.devices.wellformed
        THEN [files |-> after, copied |-> copy, error |-> "ValueError",
              devices |-> << >>]
        ELSE [files |-> after, copied |-> copy, error |-> "none",
              devices |-> after.devices.value]

Starting == [pc |-> "start", error |-> "none", copied |-> FALSE]
Running == [pc |-> "running", error |-> "none", copied |-> FALSE]

\* no direct call of a CloudControl method made
NoCall == [op |-> "none", resp |-> Raised, status |-> EmptyMap,
           result |-> [success |-> FALSE]]

(***************************************************************************)
(* Initial states: CloudUI.__init__ has run. Every device got its widget   *)
(* (add_fan and add_light call update_device_status), update_all_statuses  *)
(* has run once and cached_states was fetched; the environment did not     *)
(* change during construction.                                             *)
(***************************************************************************)
\* add_fan and add_light build every device's widgets showing "Off": a gray
\* status indicator and a toggle button that reads "Turn On"
BuiltOff == [d \in DeviceIds |-> FALSE]

InitApp ==
    /\ registry \in Registries
    /\ remote \in [DeviceIds -> BOOLEAN]
    /\ api \in ApiModes
    /\ device_widgets = WidgetsOf(RegistryIds)
    /\ \E resps \in AllGetResponses :
          LET statuses == get_all_statuses(resps)
          IN  /\ last_state = UpdateDevices(EmptyMap, RegistryIds, statuses)
              /\ indicator = UpdateDevices(BuiltOff, RegistryIds, statuses)
              /\ cached_states = statuses
              /\ labels = CategoryLabels(FanStates(StatusKeys, statuses),
                                           LightStates(StatusKeys, statuses))
              /\ shown = CategoryButtons(FanStates(StatusKeys, statuses),
                                           LightStates(StatusKeys, statuses))
    /\ lastAccepted = [d \in DeviceIds |-> NoneAccepted]
    /\ files = [devices |-> JsonFile(registry), example |-> Absent]
    /\ boot = Running
    /\ units = << >>
    /\ timers = [fanout |-> 0, action |-> 0]
    /\ poll = PollIdle
    /\ batch = NoBatch
    /\ fanouts = 0
    /\ fanoutPolls = 0
    /\ events = 0

Init ==
    /\ InitApp
    /\ aggStates = << >>
    /\ aggStatus = "unset"
    /\ aggCategory = "none"
    /\ call = NoCall

(***************************************************************************)
(* User events.                                                            *)
(***************************************************************************)
appFrame == <<registry, device_widgets, aggStates, aggStatus, aggCategory, call, files,
              boot>>
envFrame == <<api>>

\* a device's toggle button: device_action(dev_id, switch code, True, toggle_btn)
ButtonToggle(dev_id) ==
    /\ events < MaxEvents
    /\ Len(units) < MaxUnits
    /\ UiIdle
    /\ units' = Append(units, NewUnit("ui", dev_id, SwitchKey(WidgetCategory(dev_id)),
                                      BoolVal(TRUE), FALSE))
    /\ events' = events + 1
    /\ UNCHANGED <<remote, lastAccepted, last_state, indicator, cached_states, labels, shown,
                   timers, poll, batch, fanouts, fanoutPolls, appFrame, envFrame>>

\* a fan's slider released: device_action(dev_id, 'fan_speed', int(slider.get()), None)
SliderRelease(dev_id, value) ==
    /\ events < MaxEvents
    /\ Len(units) < MaxUnits
    /\ UiIdle
    /\ units' = Append(units, NewUnit("ui", dev_id, "fan_speed", IntVal(value), FALSE))
    /\ events' = events + 1
    /\ UNCHANGED <<remote, lastAccepted, last_state, indicator, cached_states, labels, shown,
                   timers, poll, batch, fanouts, fanoutPolls, appFrame, envFrame>>

\* a device's tray menu item: the closure toggle of make_device_toggle starts
TrayToggle(dev_id) ==
    /\ events < MaxEvents
    /\ Len(units) < MaxUnits
    /\ Idle("tray")
    /\ units' = Append(units,
                       [NewUnit("tray", dev_id, SwitchKey(WidgetCategory(dev_id)),
                                BoolVal(FALSE), TRUE) EXCEPT !.pc = "menu"])
    /\ events' = events + 1
    /\ UNCHANGED <<remote, lastAccepted, last_state, indicator, cached_states, labels, shown,
                   timers, poll, batch, fanouts, fanoutPolls, appFrame, envFrame>>

\* the closure reads the status and calls device_action(dev_id, cmd, not current,
\* None, True); the unit keeps the status the closure read
TrayFetch(i) ==
    /\ units[i].pc = "menu"
    /\ \E resp \in ApiGetResponses(units[i].dev) :
          LET status == get_device_status(resp)
              current == IF Truthy(status) THEN Get(status, units[i].cmd, FALSE) ELSE FALSE
          IN  units' = [units EXCEPT ![i] =
                            [NewUnit("tray", units[i].dev, units[i].cmd,
                                     BoolVal(~current), TRUE) EXCEPT !.status = status]]
    /\ UNCHANGED <<remote, lastAccepted, last_state, indicator, cached_states, labels, shown,
                   timers, poll, batch, fanouts, fanoutPolls, events, appFrame,
                   envFrame>>

SetAllState(ctx, state) ==
    /\ events < MaxEvents
    /\ Idle(ctx)
    /\ Dispatch("set_all_state", set_all_state_actions(state), EmptyMap)
    /\ events' = events + 1
    /\ UNCHANGED <<remote, lastAccepted, last_state, indicator, cached_states, labels, shown,
                   poll, fanoutPolls, appFrame, envFrame>>

SetCategoryState(ctx, category, state) ==
    /\ events < MaxEvents
    /\ Idle(ctx)
    /\ Dispatch("set_category_state", set_category_state_actions(category, state), EmptyMap)
    /\ events' = events + 1
    /\ UNCHANGED <<remote, lastAccepted, last_state, indicator, cached_states, labels, shown,
                   poll, fanoutPolls, appFrame, envFrame>>

\* the loop over the fans reads each fan's status, then the batch is dispatched
NormalizeFanSpeeds(ctx) ==
    /\ events < MaxEvents
    /\ Idle(ctx)
    /\ \E resps \in AllGetResponses :
          LET statuses == [d \in FanIds |-> get_device_status(resps[d])]
          IN  Dispatch("normalize_fan_speeds", normalize_fan_speeds_actions(statuses),
                       statuses)
    /\ events' = events + 1
    /\ UNCHANGED <<remote, lastAccepted, last_state, indicator, cached_states, labels, shown,
                   poll, fanoutPolls, appFrame, envFrame>>

(***************************************************************************)
(* The environment.                                                        *)
(***************************************************************************)
\* somebody else (wall switch, vendor app) switches a device
RemoteChange(dev_id) ==
    /\ events < MaxEvents
    /\ remote' = [remote EXCEPT ![dev_id] = ~@]
    /\ events' = events + 1
    /\ UNCHANGED <<api, lastAccepted, last_state, indicator, cached_states, labels, shown, units,
                   timers, poll, batch, fanouts, fanoutPolls, appFrame>>

\* the network or the vendor service changes how calls are answered
ApiChange(mode) ==
    /\ events < MaxEvents
    /\ mode # api
    /\ api' = mode
    /\ events' = events + 1
    /\ UNCHANGED <<remote, lastAccepted, last_state, indicator, cached_states, labels, shown,
                   units, timers, poll, batch, fanouts, fanoutPolls, appFrame>>

(***************************************************************************)
(* The steps of one device_action invocation.                              *)
(***************************************************************************)
\* status = self.ctrl.get_device_status(dev_id), and the toggle or the early return
UnitFetch(i) ==
    /\ units[i].pc = "fetch"
    /\ \E resp \in ApiGetResponses(units[i].dev) :
          units' = [units EXCEPT ![i] = AfterFetch(@, get_device_status(resp))]
    /\ UNCHANGED <<remote, lastAccepted, last_state, indicator, cached_states, labels, shown,
                   timers, poll, batch, fanouts, fanoutPolls, events, appFrame,
                   envFrame>>

\* result = self.ctrl.control(dev_id, cmd, actual_value_to_send); a call that
\* raises was not accepted by the cloud
UnitPost(i) ==
    /\ units[i].pc = "post"
    /\ \E resp \in ApiPostResponses(units[i].dev) :
          LET actual == ActualValue(units[i].cmd, units[i].final, units[i].value)
              accepted == ~resp.raised /\ resp.success
          IN  /\ remote' = IF accepted
                           THEN RemoteAfter(units[i].dev, units[i].cmd, actual)
                           ELSE remote
              /\ lastAccepted' = IF accepted
                                 THEN AcceptedAfter(units[i].dev, units[i].cmd, actual)
                                 ELSE lastAccepted
              /\ units' = [units EXCEPT ![i] =
                     [AfterControl(@, actual, control(resp))
                         EXCEPT !.accepted = accepted]]
    /\ UNCHANGED <<last_state, indicator, cached_states, labels, shown, timers, poll, batch,
                   fanouts, fanoutPolls, events, appFrame, envFrame>>

\* the success branch, first half: widget_info['last_state'] = is_on and
\* _update_device_ui; the thread then enters self.ctrl.get_all_statuses()
UnitUpdate(i) ==
    /\ units[i].pc = "update"
    /\ last_state' = StoreLastState(units[i].dev,
                                    IsOn(units[i].cmd, units[i].posted[1], units[i].dev))
    /\ indicator' = UpdateDeviceUi(units[i].dev,
                                   IsOn(units[i].cmd, units[i].posted[1], units[i].dev))
    /\ units' = [units EXCEPT ![i].pc = "cache"]
    /\ UNCHANGED <<remote, lastAccepted, cached_states, labels, shown, timers, poll,
                   batch, fanouts, fanoutPolls, events, appFrame, envFrame>>

\* second half: get_all_statuses() returns on the thread of the action,
\* self.cached_states is assigned and root.after(2000, self.update_all_statuses)
\* is called
UnitCache(i) ==
    /\ units[i].pc = "cache"
    /\ \E resps \in AllGetResponses : cached_states' = get_all_statuses(resps)
    /\ timers' = AfterAction(timers)
    /\ units' = [units EXCEPT ![i].pc = "done", ![i].outcome = "succeeded"]
    /\ UNCHANGED <<remote, lastAccepted, last_state, indicator, labels, shown, poll, batch,
                   fanouts, fanoutPolls, events, appFrame, envFrame>>

(***************************************************************************)
(* update_all_statuses, run by the event loop when a root.after timer is   *)
(* due.                                                                    *)
(***************************************************************************)
TimerSources == {"fanout", "action"}

\* statuses = self.ctrl.get_all_statuses()
PollStart(src) ==
    /\ UiIdle
    /\ timers[src] > 0
    /\ timers' = [timers EXCEPT ![src] = @ - 1]
    /\ \E resps \in AllGetResponses :
          poll' = [pc |-> "loop", src |-> src, keys |-> StatusKeys,
                   statuses |-> get_all_statuses(resps)]
    /\ UNCHANGED <<remote, lastAccepted, last_state, indicator, cached_states, labels, shown,
                   units, batch, fanouts, fanoutPolls, events, appFrame, envFrame>>

\* the loop "for dev_id, status in statuses.items()" with its update_device_status
\* calls, and the three update_category_status calls
PollFinish ==
    /\ poll.pc = "loop"
    /\ \E resps \in AllGetResponses :
          /\ last_state' = UpdateDevices(last_state, poll.keys, get_all_statuses(resps))
          /\ indicator' = UpdateDevices(indicator, poll.keys, get_all_statuses(resps))
    /\ labels' = CategoryLabels(FanStates(poll.keys, poll.statuses),
                                LightStates(poll.keys, poll.statuses))
    /\ shown' = CategoryButtons(FanStates(poll.keys, poll.statuses),
                                LightStates(poll.keys, poll.statuses))
    /\ fanoutPolls' = IF poll.src = "fanout" THEN fanoutPolls + 1 ELSE fanoutPolls
    /\ poll' = PollIdle
    /\ UNCHANGED <<remote, lastAccepted, cached_states, units, timers, batch, fanouts,
                   events, appFrame, envFrame>>

(***************************************************************************)
(* The application.                                                        *)
(***************************************************************************)
\* the next statement of invocation i, on its own thread
UnitStepOf(i) ==
    \/ TrayFetch(i)
    \/ UnitFetch(i)
    \/ UnitPost(i)
    \/ UnitUpdate(i)
    \/ UnitCache(i)

UnitStep == \E i \in 1..Len(units) : UnitStepOf(i)

PollStep ==
    \/ \E src \in TimerSources : PollStart(src)
    \/ PollFinish

UserEvent ==
    \/ \E d \in DeviceIds : ButtonToggle(d)
    \/ \E d \in FanIds, v \in SliderValues : SliderRelease(d, v)
    \/ \E d \in DeviceIds : TrayToggle(d)
    \/ \E ctx \in Callers, state \in BOOLEAN : SetAllState(ctx, state)
    \/ \E ctx \in Callers, category \in {"fskg", "tdq"}, state \in BOOLEAN :
          SetCategoryState(ctx, category, state)
    \/ \E ctx \in Callers : NormalizeFanSpeeds(ctx)

Environment ==
    \/ \E d \in DeviceIds : RemoteChange(d)
    \/ \E mode \in ApiModes : ApiChange(mode)

Next == UserEvent \/ Environment \/ UnitStep \/ PollStep

Spec == Init /\ [][Next]_vars

\* a started thread runs on as long as its remote calls return, and the event
\* loop runs a due timer callback when it is idle: the application does not
\* stop while one of them can take a step
Progress == UnitStep \/ PollStep

LiveSpec == Spec /\ WF_vars(Progress)

(***************************************************************************)
(* Direct calls of update_category_status(label, category, states) for     *)
(* each of the three labels, on every sequence of booleans up to MaxLen    *)
(* and on its reorderings. aggStatus is the method's local variable        *)
(* status.                                                                 *)
(***************************************************************************)
BoolSeqs == UNION { [1..n -> BOOLEAN] : n \in 0..MaxLen }

CategoryKeys == {"fans", "lights", "all"}

InitAgg ==
    /\ InitApp
    /\ api = "up"
    /\ aggStates \in BoolSeqs
    /\ aggStatus = "unset"
    /\ aggCategory \in CategoryKeys
    /\ call = NoCall

appVars == <<registry, remote, api, last_state, indicator, cached_states, units, timers,
             poll, batch, fanouts, fanoutPolls, events, lastAccepted,
             aggCategory, call, files, boot, device_widgets>>

\* label.configure(text=...) and the packing of the category's master buttons
AggDisplay(states) ==
    /\ labels' = [labels EXCEPT ![aggCategory] = update_category_status(states)]
    /\ shown' = [shown EXCEPT ![aggCategory] = show_buttons(states)]

AggEvaluate ==
    /\ aggStatus = "unset"
    /\ aggStatus' = update_category_status(aggStates)
    /\ AggDisplay(aggStates)
    /\ UNCHANGED <<aggStates, appVars>>

\* the same states in another order: two neighbours swapped
AggReorder(i) ==
    /\ aggStatus # "unset"
    /\ aggStates' = [aggStates EXCEPT ![i] = aggStates[i + 1], ![i + 1] = aggStates[i]]
    /\ aggStatus' = update_category_status(aggStates')
    /\ AggDisplay(aggStates')
    /\ UNCHANGED appVars

NextAgg ==
    \/ AggEvaluate
    \/ \E i \in 1..(Len(aggStates) - 1) : AggReorder(i)

SpecAgg == InitAgg /\ [][NextAgg]_vars

(***************************************************************************)
(* Direct calls of CloudControl.get_device_status and CloudControl.control *)
(* on every answer of the vendor API: the call raises, the API answers     *)
(* success = false, or it answers success = true with up to MaxItems       *)
(* status items.                                                           *)
(***************************************************************************)
StatusItems == { [code |-> c, value |-> v] : c \in SwitchCodes, v \in BOOLEAN }

ApiResponses ==
    { Raised, NonSuccess } \cup
    { Success(items) : items \in UNION { [1..n -> StatusItems] : n \in 0..MaxItems } }

uiVars == <<registry, device_widgets, remote, api, last_state, indicator, cached_states, labels,
            shown, units, timers, poll, batch, fanouts, fanoutPolls, events,
            lastAccepted>>

InitCalls ==
    /\ InitApp
    /\ api = "up"
    /\ aggStates = << >>
    /\ aggStatus = "unset"
    /\ aggCategory = "none"
    /\ call \in { [NoCall EXCEPT !.resp = r] : r \in ApiResponses }

CallGetDeviceStatus ==
    /\ call.op = "none"
    /\ call' = [call EXCEPT !.op = "get_device_status",
                            !.status = get_device_status(call.resp)]
    /\ UNCHANGED <<uiVars, aggStates, aggStatus, aggCategory, files, boot>>

CallControl ==
    /\ call.op = "none"
    /\ call' = [call EXCEPT !.op = "control", !.result = control(call.resp)]
    /\ UNCHANGED <<uiVars, aggStates, aggStatus, aggCategory, files, boot>>

NextCalls == CallGetDeviceStatus \/ CallControl

SpecCalls == InitCalls /\ [][NextCalls]_vars

(***************************************************************************)
(* Start-up: CloudControl.__init__ reads the device file, then             *)
(* CloudUI.__init__ builds the window for the devices it found.            *)
(***************************************************************************)
KnownIds == UNION { { r[i].id : i \in 1..Len(r) } : r \in Registries }

UnknownLabels == [fans |-> "Unknown", lights |-> "Unknown", all |-> "Unknown"]
AllButtons == [fans |-> "both", lights |-> "both", all |-> "both"]

InitStartup ==
    /\ files \in [devices : FileContents, example : FileContents]
    /\ boot = Starting
    /\ registry = << >>
    /\ device_widgets = << >>
    /\ remote \in [KnownIds -> BOOLEAN]
    /\ api \in ApiModes
    /\ last_state = EmptyMap
    /\ indicator = EmptyMap
    /\ cached_states = EmptyMap
    /\ labels = UnknownLabels
    /\ shown = AllButtons
    /\ lastAccepted = << >>
    /\ units = << >>
    /\ timers = [fanout |-> 0, action |-> 0]
    /\ poll = PollIdle
    /\ batch = NoBatch
    /\ fanouts = 0
    /\ fanoutPolls = 0
    /\ events = 0
    /\ aggStates = << >>
    /\ aggStatus = "unset"
    /\ aggCategory = "none"
    /\ call = NoCall

\* self.ctrl = CloudControl()
LoadDevices ==
    /\ boot.pc = "start"
    /\ LET r == CloudControlInit(files)
       IN  /\ files' = r.files
           /\ registry' = r.devices
           /\ boot' = [pc |-> IF r.error = "none" THEN "loaded" ELSE "failed",
                       error |-> r.error, copied |-> r.copied]
    /\ UNCHANGED <<remote, api, last_state, indicator, cached_states, labels, shown, lastAccepted,
                   units, timers, poll, batch, fanouts, fanoutPolls, events,
                   aggStates, aggStatus, aggCategory, call, device_widgets>>

\* CloudUI.__init__ up to the loop over the devices: the master entries and one
\* widget entry per device; from here on the cloud is followed for the
\* registry's devices
BuildUI ==
    /\ boot.pc = "loaded"
    /\ boot' = [boot EXCEPT !.pc = "built"]
    /\ device_widgets' = WidgetsOf(RegistryIds)
    /\ remote' = [d \in DeviceIds |-> remote[d]]
    /\ lastAccepted' = [d \in DeviceIds |-> NoneAccepted]
    /\ indicator' = BuiltOff
    /\ UNCHANGED <<registry, files, api, last_state, cached_states, labels, shown,
                   units, timers, poll, batch, fanouts, fanoutPolls, events,
                   aggStates, aggStatus, aggCategory, call>>

\* the update_device_status call of each add_fan and add_light, then
\* update_all_statuses and cached_states at the end of __init__
FirstPoll ==
    /\ boot.pc = "built"
    /\ boot' = [boot EXCEPT !.pc = "running"]
    /\ \E resps \in AllGetResponses :
          LET statuses == get_all_statuses(resps)
          IN  /\ last_state' = UpdateDevices(EmptyMap, RegistryIds, statuses)
              /\ indicator' = UpdateDevices(indicator, RegistryIds, statuses)
              /\ cached_states' = statuses
              /\ labels' = CategoryLabels(FanStates(StatusKeys, statuses),
                                           LightStates(StatusKeys, statuses))
              /\ shown' = CategoryButtons(FanStates(StatusKeys, statuses),
                                           LightStates(StatusKeys, statuses))
    /\ UNCHANGED <<registry, device_widgets, files, remote, lastAccepted, api, units,
                   timers, poll, batch, fanouts, fanoutPolls, events, aggStates,
                   aggStatus, aggCategory, call>>

NextStartup == LoadDevices \/ BuildUI \/ FirstPoll

SpecStartup == InitStartup /\ [][NextStartup]_vars

(***************************************************************************)
(* Properties.                                                             *)
(***************************************************************************)
Reordered(states, p) == [i \in 1..Len(states) |-> states[p[i]]]

\* C1: the category status of a sequence of boolean device states is Unknown
\* when the sequence is empty, ON when it is non-empty and all true, OFF when
\* it is non-empty and all false, MIXED when it holds a true and a false; and
\* every reordering of the sequence gets the same status.
C1_AggregateStatus ==
    aggStatus # "unset" =>
        LET n == Len(aggStates)
        IN  /\ (n = 0) => aggStatus = "Unknown"
            /\ (n > 0 /\ \A i \in 1..n : aggStates[i]) => aggStatus = "ON"
            /\ (n > 0 /\ \A i \in 1..n : ~aggStates[i]) => aggStatus = "OFF"
            /\ (\E i, j \in 1..n : aggStates[i] /\ ~aggStates[j]) => aggStatus = "MIXED"
            /\ \A p \in Permutations(1..n) :
                  update_category_status(Reordered(aggStates, p)) = aggStatus

C1_Witness ==
    /\ aggStatus = "MIXED"
    /\ Len(aggStates) >= 3
    /\ ~aggStates[1]
    /\ aggStates[Len(aggStates)]

\* C2: every tuple that normalize_fan_speeds dispatches carries the set-point
\* 40 when the device's name contains "exhaust" in any letter case, and 45
\* otherwise.
C2_ExhaustGets40 ==
    batch.op = "normalize_fan_speeds" =>
        \A k \in 1..Len(batch.actions) :
            batch.actions[k][3] =
                IF Contains(Lower(DeviceName(batch.actions[k][1])),
                            <<"e","x","h","a","u","s","t">>)
                THEN IntVal(40) ELSE IntVal(45)

FanIsOn(status) == Truthy(status) /\ Get(status, "switch_fan", FALSE)

\* C3: normalize_fan_speeds dispatches only to fans whose freshly fetched
\* status is non-empty and reports switch_fan true, never to a light, and
\* launches no unit of work when no fan is on.
C3_NormalizeSkipsOff ==
    batch.op = "normalize_fan_speeds" =>
        /\ \A k \in 1..Len(batch.actions) :
              /\ batch.actions[k][1] \in FanIds
              /\ FanIsOn(batch.statuses[batch.actions[k][1]])
        /\ batch.launched = Len(batch.actions)
        /\ (\A d \in FanIds : ~FanIsOn(batch.statuses[d])) => batch.launched = 0

C3_Witness ==
    /\ batch.op = "normalize_fan_speeds"
    /\ batch.launched = 0
    /\ \E d \in DeviceIds : DeviceOf(d).category = "tdq"
    /\ \E d \in FanIds : Truthy(batch.statuses[d]) /\ ~FanIsOn(batch.statuses[d])

\* C4: a non-forced device_action on a switch code that posts a command has
\* read the status once, got a non-empty status, and posts the negation of the
\* switch value of that status (false when the code is absent), whatever the
\* caller's value, last_state and cached_states are.
C4_ToggleNegatesFetched ==
    \A i \in 1..Len(units) :
        (~units[i].force /\ units[i].cmd \in SwitchCodes /\ units[i].posted # << >>) =>
            /\ units[i].fetches = 1
            /\ Truthy(units[i].status)
            /\ units[i].posted[1] = BoolVal(~Get(units[i].status, units[i].cmd, FALSE))

\* the device was switched off behind the application's back: the caches say
\* on, the status read says off, and the toggle posts true
C4_Witness ==
    \E i \in 1..Len(units) :
        /\ ~units[i].force
        /\ units[i].cmd \in SwitchCodes
        /\ units[i].pc = "update"
        /\ units[i].posted = <<BoolVal(TRUE)>>
        /\ units[i].cmd \in DOMAIN units[i].status
        /\ Get(last_state, units[i].dev, FALSE)
        /\ Get(cached_states[units[i].dev], units[i].cmd, FALSE)

\* C5: a forced device_action on a switch code reads no status, and the value
\* it posts is the caller's value.
C5_ForcedSendsValue ==
    \A i \in 1..Len(units) :
        (units[i].force /\ units[i].cmd \in SwitchCodes) =>
            /\ units[i].fetches = 0
            /\ units[i].posted # << >> => units[i].posted[1] = units[i].value

\* a forced "on" accepted for a device that was already on
C5_Witness ==
    \E i \in 1..Len(units) :
        /\ units[i].force
        /\ units[i].ctx = "worker"
        /\ units[i].cmd \in SwitchCodes
        /\ units[i].pc = "update"
        /\ units[i].posted = <<BoolVal(TRUE)>>
        /\ Get(last_state, units[i].dev, FALSE)

\* C6: a device_action whose status read returns an empty map ends there: it
\* posts nothing, and the step leaves the cloud, last_state, cached_states
\* and the pending re-polls as they were; an aborted action takes no further
\* step.
C6_FailSoftToggle ==
    [][\A i \in 1..Len(units) :
          /\ (units[i].pc = "fetch" /\ units'[i].pc # "fetch"
                /\ ~Truthy(units'[i].status)) =>
                /\ units'[i].pc = "done"
                /\ units'[i].outcome = "aborted"
                /\ units'[i].posted = << >>
                /\ remote' = remote
                /\ last_state' = last_state
                /\ cached_states' = cached_states
                /\ timers' = timers
          /\ units[i].outcome = "aborted" => units'[i] = units[i]]_vars

C6_Witness ==
    \E i \in 1..Len(units) :
        /\ units[i].outcome = "aborted"
        /\ units[i].fetches = 1
        /\ units[i].posted = << >>
        /\ units[i].dev \in DOMAIN last_state

\* C7: when a device_action whose switch command succeeded completes,
\* last_state of its device is the value it posted.
C7_SuccessStoresPosted ==
    [][\A i \in 1..Len(units) :
          (units[i].pc = "update" /\ units'[i].pc # "update"
             /\ units[i].cmd \in SwitchCodes) =>
                /\ units[i].dev \in DOMAIN last_state'
                /\ last_state'[units[i].dev] = units[i].posted[1].b]_vars

\* a device whose cached state said on, after an accepted "off"
C7_Witness ==
    \E i \in 1..Len(units) :
        /\ units[i].outcome = "succeeded"
        /\ units[i].cmd \in SwitchCodes
        /\ units[i].posted = <<BoolVal(FALSE)>>
        /\ last_state[units[i].dev] = FALSE
        /\ labels.all = "ON"

\* C8: a device_action whose post the cloud did not accept changes neither
\* last_state nor cached_states nor the pending re-polls, in the step of the
\* post and in every later step of that action.
C8_FailureKeepsState ==
    [][\A i \in 1..Len(units) :
          (units'[i] # units[i] /\ units'[i].posted # << >> /\ ~units'[i].accepted) =>
                /\ last_state' = last_state
                /\ cached_states' = cached_states
                /\ timers' = timers
                /\ units'[i].outcome = "failed"]_vars

\* a toggle whose status read succeeded and whose post failed
C8_Witness ==
    \E i \in 1..Len(units) :
        /\ units[i].outcome = "failed"
        /\ ~units[i].force
        /\ units[i].fetches = 1
        /\ units[i].dev \in DeviceIds

\* C9: a call of _run_concurrent_actions with n tuples adds exactly n units of
\* work, in the order of the list, each with its tuple's device id, code, value
\* and force flag, and none of them has run when the call returns; the units
\* started before are untouched.
C9_FanOutLaunches ==
    [][fanouts' # fanouts =>
          LET n == Len(batch'.actions)
          IN  /\ Len(units') = Len(units) + n
              /\ SubSeq(units', 1, Len(units)) = units
              /\ \A k \in 1..n :
                    LET u == units'[Len(units) + k]
                        a == batch'.actions[k]
                    IN  /\ u.ctx = "worker"
                        /\ u.dev = a[1]
                        /\ u.cmd = a[2]
                        /\ u.value = a[3]
                        /\ u.force = a[4]
                        /\ u.pc # "done"
                        /\ u.outcome = "running"
                        /\ u.posted = << >>]_vars

\* set_all_state just returned: four units, none has run
C9_Witness ==
    /\ batch.op = "set_all_state"
    /\ batch.launched = 4
    /\ Len(units) = 4
    /\ \A k \in 1..4 : units[k].outcome = "running" /\ units[k].posted = << >>

\* C10: every fan-out has its own re-poll pending, running or completed, from
\* the moment it returns, whatever becomes of its commands; each fan-out's
\* re-poll eventually completes; and a re-poll reads the status of every
\* device of the registry.
C10_RepollFollows ==
    /\ [](fanouts = timers.fanout + fanoutPolls
                      + (IF poll.src = "fanout" THEN 1 ELSE 0))
    /\ [](poll.pc = "loop" => DOMAIN poll.statuses = DeviceIds)
    /\ \A k \in 1..MaxEvents : (fanouts >= k) ~> (fanoutPolls >= k)

\* the re-poll of a fan-out ran although a command of the batch failed
C10_Witness ==
    /\ fanoutPolls >= 1
    /\ \E i \in 1..Len(units) :
          /\ units[i].ctx = "worker"
          /\ units[i].dev \in DeviceIds
          /\ units[i].outcome = "failed"

AllOn == [fans |-> "ON", lights |-> "ON", all |-> "ON"]

\* C11: with the registry of one fan f1 and one light l1, a run of
\* update_all_statuses whose status snapshot reports switch_fan true for f1 and
\* switch_1 true for l1 sets the Fans, Lights and All labels to ON; so does the
\* run that ends the construction of the window.
C11_EndToEndAllOn ==
    /\ (RegistryIds = <<"f1", "l1">> /\ api = "up" /\ remote["f1"] /\ remote["l1"])
          => labels = AllOn
    /\ [][(/\ poll.pc = "loop"
           /\ poll'.pc = "idle"
           /\ RegistryIds = <<"f1", "l1">>
           /\ Get(poll.statuses["f1"], "switch_fan", FALSE)
           /\ Get(poll.statuses["l1"], "switch_1", FALSE))
             => labels' = AllOn]_vars

\* Turn On Everything on two devices that were off, and the re-poll after it
C11_Witness ==
    /\ RegistryIds = <<"f1", "l1">>
    /\ batch.op = "set_all_state"
    /\ fanoutPolls = 1
    /\ labels = AllOn
    /\ \A d \in DeviceIds :
          \E i \in 1..Len(units) :
              /\ units[i].dev = d
              /\ units[i].posted = <<BoolVal(TRUE)>>
              /\ units[i].outcome = "succeeded"

CallFailed == call.resp.raised \/ ~call.resp.success

\* C12: get_device_status returns the empty map whenever the fetch raises or
\* the API answers success = false, and control returns a result whose success
\* is not true whenever the post raises or the API answers success = false;
\* the map returned for a failed fetch is the one returned for a successful
\* fetch without status items.
C12_FailuresDegrade ==
    /\ (call.op = "get_device_status" /\ CallFailed) => ~Truthy(call.status)
    /\ (call.op = "control" /\ CallFailed) => call.result.success # TRUE
    /\ (call.op = "get_device_status" /\ call.resp = Success(<< >>)) =>
          ~Truthy(call.status)

\* a status fetch that raised has returned
C12_Witness ==
    /\ call.op = "get_device_status"
    /\ call.resp = Raised
    /\ ~Truthy(call.status)

\* C13: when devices.json is absent and the example exists, CloudControl.__init__
\* copies the example to devices.json and loads that file; when neither exists
\* it raises FileNotFoundError; when the file it opens is not well-formed JSON
\* it raises ValueError; a start-up that raised has no registry and goes no
\* further.
C13_DeviceFileLoading ==
    [][/\ (boot.pc = "start" /\ boot'.pc # "start") =>
             /\ (~files.devices.exists /\ files.example.exists) =>
                    /\ files'.devices = files.example
                    /\ boot'.copied
                    /\ files.example.wellformed =>
                           (boot'.pc = "loaded" /\ registry' = files.example.value)
             /\ (~files.devices.exists /\ ~files.example.exists) =>
                    /\ boot'.pc = "failed"
                    /\ boot'.error = "FileNotFoundError"
                    /\ registry' = << >>
                    /\ files' = files
             /\ (files'.devices.exists /\ ~files'.devices.wellformed) =>
                    /\ boot'.pc = "failed"
                    /\ boot'.error = "ValueError"
                    /\ registry' = << >>
             /\ (files.devices.exists /\ files.devices.wellformed) =>
                    (boot'.pc = "loaded" /\ registry' = files.devices.value
                       /\ files' = files)
       /\ boot.pc = "failed" => (boot' = boot /\ registry' = << >>)]_vars

\* first run: the registry of the copied example is in use
C13_Witness ==
    /\ boot.pc = "running"
    /\ boot.copied
    /\ files.devices = files.example
    /\ registry = files.example.value
    /\ Len(registry) = 2
    /\ DOMAIN last_state = DeviceIds

\* the full-device status fetches in progress and the thread each runs on: the
\* run of update_all_statuses, and the get_all_statuses call of every
\* device_action that is in its success branch
FullFetches ==
    (IF poll.pc = "loop" THEN { <<0, "ui">> } ELSE {}) \cup
    { <<i, units[i].ctx>> : i \in { j \in 1..Len(units) : units[j].pc = "cache" } }

\* C14 as stated: at most one full-device status fetch is in progress at any
\* time, and every one runs on the UI event loop.
C14_PollNeverOverlaps ==
    /\ Cardinality(FullFetches) <= 1
    /\ \A f \in FullFetches : f[2] = "ui"

\* C14 as amended: a run of update_all_statuses starts only from a pending
\* root.after timer taken by the event loop while no other run and no
\* device_action of the UI thread is in progress, so at most one run is in
\* progress at any time; no step of a device_action, on whatever thread,
\* starts or ends a run.
C14_RepollOnEventLoop ==
    /\ [](poll.pc = "loop" => ~Busy("ui"))
    /\ [][/\ (timers'.fanout < timers.fanout \/ timers'.action < timers.action) =>
                /\ poll.pc = "idle"
                /\ ~Busy("ui")
                /\ poll'.pc = "loop"
                /\ units' = units
          /\ poll' # poll =>
                /\ units' = units
                /\ poll.pc = "idle" <=> poll'.pc = "loop"]_vars

\* a re-poll in progress while a worker thread fetches every status for
\* cached_states
C14_Witness ==
    /\ poll.pc = "loop"
    /\ \E i \in 1..Len(units) : units[i].ctx = "worker" /\ units[i].pc = "cache"

\* a call of update_category_status has just run
AggCalled == aggStatus' # aggStatus \/ aggStates' # aggStates

\* C15 as stated: a call of update_category_status changes nothing but the
\* status it computes, shown in the label it is given: no device state, no
\* cached state, no other displayed element.
C15_NoSideEffects ==
    [][AggCalled =>
          /\ UNCHANGED <<remote, last_state, indicator, cached_states, shown>>
          /\ \A c \in CategoryKeys \ {aggCategory} : labels'[c] = labels[c]]_vars

\* C15 as amended: a call of update_category_status changes no device state
\* and no cached state; it sets the text of its label to the status and
\* leaves on screen the master buttons of the label's category that the
\* status calls for (both for Unknown and MIXED, the off button for ON, the
\* on button for OFF), and changes no other label and no other category's
\* buttons.
C15_AggregationFrame ==
    [][AggCalled =>
          /\ UNCHANGED <<remote, last_state, indicator, cached_states, units, timers, poll>>
          /\ labels' = [labels EXCEPT ![aggCategory] = aggStatus']
          /\ shown' = [shown EXCEPT ![aggCategory] =
                          IF aggStatus' = "ON" THEN "off"
                          ELSE IF aggStatus' = "OFF" THEN "on"
                          ELSE "both"]]_vars

\* the Fans label and buttons say ON although a fan's cached state is off
C15_Witness ==
    /\ aggCategory = "fans"
    /\ aggStatus = "ON"
    /\ labels.fans = "ON"
    /\ shown.fans = "off"
    /\ \E d \in FanIds : last_state[d] = FALSE

BatchOps == {"set_category_state", "set_all_state", "normalize_fan_speeds"}

\* C16: no batch built by set_category_state, set_all_state or
\* normalize_fan_speeds holds two tuples with the same device id, and the
\* fan-out starts one unit of work per id.
C16_BatchUnique ==
    batch.op \in BatchOps =>
        /\ \A j, k \in 1..Len(batch.actions) :
              j # k => batch.actions[j][1] # batch.actions[k][1]
        /\ \A j, k \in 1..batch.launched :
              j # k => units[batch.first + j - 1].dev # units[batch.first + k - 1].dev

\* a device file that lists one device id under two names, and a batch for
\* its category
C16_Witness ==
    /\ Len(registry) = 2
    /\ registry[1].id = registry[2].id
    /\ batch.op = "set_category_state"
    /\ batch.launched = 1
    /\ units[batch.first].dev = registry[1].id

AllUnitsDone == \A i \in 1..Len(units) : units[i].pc = "done"

Succeeded == { i \in 1..Len(units) : units[i].outcome = "succeeded" }

\* C17: two fan-out batches were started one right after the other, nothing
\* else happened (no other user event, no change of the environment, no
\* re-poll yet) and every unit of work has finished: last_state of each device
\* the cloud accepted a switch command for is the value of the command it
\* accepted last.
C17_CacheMatchesAccepted ==
    (/\ fanouts = 2
     /\ events = 2
     /\ AllUnitsDone
     /\ poll.pc = "idle"
     /\ fanoutPolls = 0
     /\ timers.fanout = 2
     /\ timers.action = Cardinality(Succeeded)) =>
        \A d \in DeviceIds :
            lastAccepted[d].some =>
                (d \in DOMAIN last_state /\ last_state[d] = lastAccepted[d].b)

Outcomes == {"aborted", "succeeded", "failed"}

Launched(k) == Len(units) >= k /\ units[k].ctx = "worker"

Ended(k) == Len(units) >= k /\ units[k].pc = "done" /\ units[k].outcome \in Outcomes

\* C18: whenever units of work a fan-out launched are still running, a state
\* follows in which every launched unit has ended; a unit ends in exactly one
\* of the outcomes aborted, succeeded, failed, which it keeps; a
\* unit that has not ended can always take its next step, whatever became of
\* the other units, and a step of one unit changes no other unit.
C18_UnitsFinish ==
    /\ (\E k \in 1..MaxUnits : Launched(k) /\ ~Ended(k))
          ~> (\A k \in 1..MaxUnits : Launched(k) => Ended(k))
    /\ [](\A i \in 1..Len(units) :
            /\ units[i].pc = "done" <=> units[i].outcome \in Outcomes
            /\ units[i].pc # "done" <=> units[i].outcome = "running"
            /\ units[i].pc # "done" => ENABLED UnitStepOf(i))
    /\ [][\A i \in 1..Len(units) :
            /\ units[i].pc = "done" => units'[i] = units[i]
            /\ units'[i] # units[i] =>
                  \A j \in 1..Len(units) : j # i => units'[j] = units[j]]_vars

\* a batch of four whose first two commands failed and whose other two
\* succeeded
C18_Witness ==
    /\ batch.launched = 4
    /\ Len(units) = 4
    /\ \A k \in 1..2 : units[k].ctx = "worker" /\ units[k].outcome = "failed"
    /\ \A k \in 3..4 : units[k].ctx = "worker" /\ units[k].outcome = "succeeded"

\* the tuple a routes a switch command with value s to a registered device
Routed(a, s) ==
    /\ a[1] \in DeviceIds
    /\ a[2] = (IF DeviceOf(a[1]).category = "fskg" THEN "switch_fan" ELSE "switch_1")
    /\ a[3] = BoolVal(s)
    /\ a[4] = TRUE

\* C19: every action of the batch set_all_state(s) or set_category_state(c, s)
\* dispatched targets an id of the device registry, carries switch_fan for a
\* fan and switch_1 for a light, the value s and a set force flag, and the
\* batch of set_category_state(c, s) targets exactly the devices of category c.
C19_CommandRouting ==
    /\ batch.op = "set_all_state" =>
          \E s \in BOOLEAN :
              \A i \in 1..Len(batch.actions) : Routed(batch.actions[i], s)
    /\ batch.op = "set_category_state" =>
          \E c \in {"fskg", "tdq"}, s \in BOOLEAN :
              /\ \A i \in 1..Len(batch.actions) : Routed(batch.actions[i], s)
              /\ { batch.actions[i][1] : i \in 1..Len(batch.actions) } =
                    { d \in DeviceIds : DeviceOf(d).category = c }

\* what the window button's device_action(dev_id, cmd, True, toggle_btn) does
\* when its status read returns status
ButtonPath(dev_id, cmd, status) ==
    AfterFetch(NewUnit("ui", dev_id, cmd, BoolVal(TRUE), FALSE), status)

\* C20: a tray toggle whose status read returned some status does to the
\* cloud what the window button does on the same status: it posts nothing
\* when the button's action aborts, and otherwise posts the value the button's
\* action posts.
C20_TrayLikeButton ==
    \A i \in 1..Len(units) :
        (units[i].ctx = "tray" /\ units[i].pc # "menu") =>
            LET b == ButtonPath(units[i].dev, units[i].cmd, units[i].status)
            IN  /\ b.outcome = "aborted" => units[i].posted = << >>
                /\ (b.outcome # "aborted" /\ units[i].posted # << >>) =>
                      units[i].posted[1] = ActualValue(b.cmd, b.final, b.value)

\* the on/off state the application holds for device d: every reader of
\* last_state is widget_info.get('last_state', False)
CachedOn(ls, d) == Get(ls, d, FALSE)

\* C21: no step of a fan_speed command, the step of its success branch
\* included, changes the cached on/off state of any device or what any
\* device's indicator and toggle button show, also for a device that has no
\* last_state entry yet.
C21_SpeedKeepsOnOff ==
    [][\A i \in 1..Len(units) :
          (units[i].cmd = "fan_speed" /\ units'[i] # units[i]) =>
              /\ \A d \in DeviceIds : CachedOn(last_state', d) = CachedOn(last_state, d)
              /\ indicator' = indicator]_vars

\* the slider's command succeeded for a fan that is on in the cloud and whose
\* status no fetch has returned since the start (no re-poll has run and
\* cached_states is still the empty start-up answer): the success branch has
\* just stored the default, and the widgets still show "off"
C21_Witness ==
    /\ Len(units) = 1
    /\ units[1].cmd = "fan_speed"
    /\ units[1].ctx = "ui"
    /\ units[1].pc = "cache"
    /\ remote[units[1].dev]
    /\ cached_states[units[1].dev] = EmptyMap
    /\ poll.pc = "idle" /\ fanoutPolls = 0 /\ timers.action = 0
    /\ units[1].dev \in DOMAIN last_state
    /\ ~last_state[units[1].dev]
    /\ ~indicator[units[1].dev]

\* the devices of the registry that have category, each id once, in file order
DevicesOf(category) ==
    SelectSeq(DictKeys(RegistryIds), LAMBDA d : DeviceOf(d).category = category)

\* one boolean per device of the category: the switch value of the device's
\* status in the snapshot, false when the status has no such code or is empty
OnePerDevice(category, statuses) ==
    LET ids == DevicesOf(category)
    IN  [i \in 1..Len(ids) |-> Get(statuses[ids[i]], SwitchKey(category), FALSE)]

\* C22: the labels a run of update_all_statuses sets are those of a fan list
\* and a light list that hold exactly one boolean per device of the category
\* (the snapshot's switch value, false for an empty status), and a category's
\* label reads Unknown exactly when the registry has no device of the category.
C22_OneBooleanPerDevice ==
    /\ [][(poll.pc = "loop" /\ poll'.pc = "idle") =>
              labels' = CategoryLabels(OnePerDevice("fskg", poll.statuses),
                                       OnePerDevice("tdq", poll.statuses))]_vars
    /\ [](/\ labels.fans = "Unknown" <=> DevicesOf("fskg") = << >>
          /\ labels.lights = "Unknown" <=> DevicesOf("tdq") = << >>
          /\ labels.all # "Unknown")

\* the cloud was unreachable all along: the re-poll after a fan-out got an
\* empty status for the fan and for the light, both of which are on, and the
\* labels read OFF, not Unknown
C22_Witness ==
    /\ Len(registry) = 2
    /\ api = "down"
    /\ events = 1
    /\ fanoutPolls = 1
    /\ poll.pc = "idle"
    /\ \A d \in DeviceIds : remote[d]
    /\ labels = [fans |-> "OFF", lights |-> "OFF", all |-> "OFF"]

\* all(w.get('last_state', False) ...) over the devices of ids, the condition
\* under which _update_device_ui shows a category indicator as on
AllCachedOn(ls, ids) == \A i \in 1..Len(ids) : CachedOn(ls, ids[i])

\* C23: when a run of update_all_statuses completes while every device_action
\* started so far has ended, the label of each category that has a device
\* reads ON exactly when last_state of every device of the category is true.
C23_LabelMatchesCache ==
    [][(poll.pc = "loop" /\ poll'.pc = "idle" /\ AllUnitsDone) =>
          /\ DevicesOf("fskg") # << >> =>
                (labels'.fans = "ON" <=> AllCachedOn(last_state', DevicesOf("fskg")))
          /\ DevicesOf("tdq") # << >> =>
                (labels'.lights = "ON" <=> AllCachedOn(last_state', DevicesOf("tdq")))
          /\ labels'.all = "ON" <=>
                AllCachedOn(last_state', DevicesOf("fskg") \o DevicesOf("tdq"))]_vars

====
